---- MODULE Spec2Model ----
(***************************************************************************)
(* meshproc.cpp: a command-line mesh reader.  main() opens one file,       *)
(* dispatches on the lower-cased path suffix to the STL decoder (binary or *)
(* ASCII, chosen by an exact size check) or to the PLY pipeline (schema    *)
(* parser, ASCII data parser, projector to triangles) and prints the       *)
(* number of triangles.  The stream raises std::ios_base::failure on       *)
(* failbit/badbit (line 281); main() catches nothing after the open, so    *)
(* every exception ends the process through std::terminate/abort.          *)
(*                                                                         *)
(* Abstractions.  A file is the three facts the code observes about its    *)
(* bytes: its length, the 32-bit word at offset 80 and its whitespace      *)
(* tokenisation.  A float read from binary offset p is represented by p    *)
(* itself.  Numeric text tokens are small integers.                        *)
(***************************************************************************)
EXTENDS Integers, Sequences, FiniteSets, TLC

VARIABLES
  argc,                 \* main's argc
  path,                 \* argv[1] as a sequence of characters
  openOk,               \* whether ifs.open succeeds
  file,                 \* the file's contents: [size, count, text]
  pc,                   \* position in main and the readers
  exit,                 \* process exit status, -1 while running
  err,                  \* what ended the run abnormally, "none" otherwise
  out,                  \* lines written to std::cout
  triangles,            \* std::vector<Triangle> triangles (main, line 294)
  pos,                  \* stream byte offset of the unformatted reads
  tok,                  \* index of the next unread token of the formatted reads
  eofbit,               \* the stream's eofbit; good() is ~eofbit
  num_triangles,        \* read_stl's num_triangles
  i,                    \* loop counter of read_binary_stl
  token,                \* read_ply's token
  format,               \* read_ply's format
  element_definitions,  \* read_ply's element_definitions
  elements_map,         \* parsed_ply.elements_map
  edIdx,                \* index of the element definition being parsed
  recIdx,               \* records of that definition read so far
  vertices,             \* the projector's vertices
  faceIdx               \* face records projected so far

vars == <<argc, path, openOk, file, pc, exit, err, out, triangles, pos, tok,
          eofbit, num_triangles, i, token, format, element_definitions,
          elements_map, edIdx, recIdx, vertices, faceIdx>>

stlVars == <<num_triangles, i>>
plyVars == <<token, format, element_definitions, elements_map, edIdx, recIdx,
             vertices, faceIdx>>
inputVars == <<argc, path, openOk, file>>

-----------------------------------------------------------------------------
(* Bounds of the checked inputs *)

MaxTris == 2        \* binary STL files hold up to MaxTris records
MaxFacets == 2      \* ASCII STL files hold up to MaxFacets facet blocks
MaxVerts == 3       \* PLY files declare up to MaxVerts vertex records
MaxFaces == 2       \* PLY files declare up to MaxFaces face records

-----------------------------------------------------------------------------
(* Program constants *)

BINARY_STL_HEADER_SIZE == 80
SizeofFloat == 4
SizeofUint32 == 4
SizeofUint16 == 2
SizeofTriangle == (3 + 3 * 3) * SizeofFloat

-----------------------------------------------------------------------------
(* Text: tokens and the whitespace that follows them *)

W(s) == [num |-> FALSE, w |-> s, v |-> 0]
N(n) == [num |-> TRUE, w |-> "", v |-> n]

\* a token followed by blanks ("sp"), by whitespace holding a newline ("nl"),
\* or by the end of the file ("none")
Item(t, ws) == [t |-> t, ws |-> ws]

Sep(ts, ws) == [k \in 1..Len(ts) |-> Item(ts[k], ws)]
Line(ts) == [k \in 1..Len(ts) |-> Item(ts[k], IF k = Len(ts) THEN "nl" ELSE "sp")]

\* the text with the whitespace after its last token replaced
EndWith(text, ws) ==
  IF text = <<>> THEN text
  ELSE [text EXCEPT ![Len(text)] = Item(text[Len(text)].t, ws)]

TokenBytes(t) == IF t.num THEN (IF t.v < 0 THEN 2 ELSE 1) ELSE Len(t.w)

RECURSIVE TextBytes(_)
TextBytes(text) ==
  IF text = <<>> THEN 0
  ELSE TokenBytes(Head(text).t) + (IF Head(text).ws = "none" THEN 0 ELSE 1)
       + TextBytes(Tail(text))

RECURSIVE Flatten(_)
Flatten(ss) == IF ss = <<>> THEN <<>> ELSE Head(ss) \o Flatten(Tail(ss))

-----------------------------------------------------------------------------
(* Input files *)

File(size, count, text) == [size |-> size, count |-> count, text |-> text]

EmptyFile == File(0, 0, <<>>)

\* one facet ... endfacet block; c tells its coordinates apart
Facet(c) ==
  <<W("facet"), W("normal"), N(0), N(0), N(1), W("outer"), W("loop"),
    W("vertex"), N(c), N(0), N(0), W("vertex"), N(0), N(c), N(0),
    W("vertex"), N(0), N(0), N(c), W("endloop"), W("endfacet")>>

Facets(k) == Flatten([c \in 1..k |-> Facet(c)])

\* a facet whose first vertex holds a word where a number is expected
BadFacet == [Facet(1) EXCEPT ![9] = W("oops")]

StlTokens ==
  { pre \o Facets(k) \o post :
      pre \in {<<>>, <<W("solid"), W("m")>>},
      k \in 0..MaxFacets,
      post \in {<<>>, <<W("endsolid"), W("m")>>} }
  \cup { Facets(k) \o BadFacet : k \in 0..1 }
  \cup { Facets(k) \o SubSeq(Facet(1), 1, cut) : k \in 0..1, cut \in {1, 10, 20} }

StlTexts ==
  { EndWith(Sep(ts, ws), last) :
      ts \in StlTokens, ws \in {"sp", "nl"}, last \in {"none", "sp", "nl"} }

\* the bytes of a binary STL file read as text: no facet keyword in them
JunkText == <<Item(W("junk"), "none")>>

BinarySize(n) ==
  BINARY_STL_HEADER_SIZE + SizeofUint32 + n * (SizeofTriangle + SizeofUint16)

\* a file too short to hold the count has no word at offset 80
AsciiStlFiles ==
  { File(TextBytes(t), c, t) : t \in StlTexts \ {<<>>}, c \in 0..1 }

BinaryStlFiles ==
  { File(BinarySize(n) + d, c, JunkText) :
      n \in 0..MaxTris, c \in 0..(MaxTris + 1), d \in {0, 1} }

StlFiles == AsciiStlFiles \cup BinaryStlFiles

-----------------------------------------------------------------------------
(* The stream (std::ifstream with exceptions(badbit | failbit), line 281) *)

good == ~eofbit

\* ifs.read(buf, n): fewer than n bytes left sets eofbit | failbit
ReadFails(n) == pos + n > file.size

\* the float stored at a byte offset of the file
FloatAt(p) == p

Vec3fAt(p) == <<FloatAt(p), FloatAt(p + SizeofFloat), FloatAt(p + 2 * SizeofFloat)>>

\* ifs.read((char *)&t, sizeof(Triangle)): normal, then the three vertices
TriangleAt(p) ==
  [normal |-> Vec3fAt(p),
   vertices |-> [k \in 1..3 |-> Vec3fAt(p + k * 3 * SizeofFloat)]]

\* ifs >> x, n times from token k on: the extraction skips whitespace and
\* fails when it meets the end of the file before any character of a token
TokensLeft(k, n) == k + n - 1 <= Len(file.text)

\* a token that runs up to the end of the file sets eofbit (and not failbit)
EofAfter(k) == file.text[k].ws = "none"

Tok(k) == file.text[k].t

\* ifs >> float/double/size_t fails on a token that is not a number
AllNumbers(ks) == \A k \in ks : Tok(k).num

-----------------------------------------------------------------------------
(* Ending the run *)

\* return <status> from main
Return(status, why) ==
  /\ pc' = "done"
  /\ exit' = status
  /\ err' = why

\* an exception leaves main uncaught: std::terminate calls abort (SIGABRT)
Throw(what) == Return(134, what)

\* the process is killed by a memory fault (SIGSEGV)
Crash == Return(139, "SIGSEGV")

-----------------------------------------------------------------------------
(* main *)

LowerOf(c) ==
  CASE c = "S" -> "s" [] c = "T" -> "t" [] c = "L" -> "l"
    [] c = "P" -> "p" [] c = "Y" -> "y" [] OTHER -> c

str_tolower(s) == [k \in 1..Len(s) |-> LowerOf(s[k])]

ends_with(s, suffix) ==
  /\ Len(s) >= Len(suffix)
  /\ SubSeq(s, Len(s) - Len(suffix) + 1, Len(s)) = suffix

DotStl == <<".", "s", "t", "l">>
DotPly == <<".", "p", "l", "y">>

MainArgs ==
  /\ pc = "start"
  /\ IF argc # 2
       THEN Return(1, "usage")
       ELSE pc' = "open" /\ UNCHANGED <<exit, err>>
  /\ UNCHANGED <<inputVars, out, triangles, pos, tok, eofbit, stlVars, plyVars>>

MainOpen ==
  /\ pc = "open"
  /\ IF ~openOk
       THEN Return(1, "open")
       ELSE pc' = "dispatch" /\ UNCHANGED <<exit, err>>
  /\ UNCHANGED <<inputVars, out, triangles, pos, tok, eofbit, stlVars, plyVars>>

MainDispatch ==
  /\ pc = "dispatch"
  /\ IF ends_with(str_tolower(path), DotStl)
       THEN pc' = "read_stl" /\ UNCHANGED <<exit, err>>
       ELSE IF ends_with(str_tolower(path), DotPly)
         THEN pc' = "read_ply" /\ UNCHANGED <<exit, err>>
         ELSE Return(1, "unsupported")
  /\ UNCHANGED <<inputVars, out, triangles, pos, tok, eofbit, stlVars, plyVars>>

MainPrint ==
  /\ pc = "print"
  /\ out' = Append(out, <<"Number of triangles", Len(triangles)>>)
  /\ Return(0, "none")
  /\ UNCHANGED <<inputVars, triangles, pos, tok, eofbit, stlVars, plyVars>>

-----------------------------------------------------------------------------
(* STL decoder *)

calc_file_size == file.size

\* read_stl up to the call of read_binary_stl or read_ascii_stl
ReadStl ==
  /\ pc = "read_stl"
  /\ IF calc_file_size = 0
       THEN /\ out' = Append(out, <<"Empty file", 0>>)
            /\ pc' = "print"
            /\ UNCHANGED <<exit, err, pos, tok, num_triangles>>
       ELSE IF BINARY_STL_HEADER_SIZE + SizeofUint32 > file.size
         THEN \* the read of num_triangles comes up short
              /\ Throw("ios_base::failure")
              /\ pos' = file.size
              /\ UNCHANGED <<out, tok, num_triangles>>
         ELSE /\ num_triangles' = file.count
              /\ IF calc_file_size = BinarySize(file.count)
                   THEN /\ pc' = "read_binary_stl"
                        /\ pos' = BINARY_STL_HEADER_SIZE + SizeofUint32
                        /\ tok' = tok
                   ELSE /\ pc' = "read_ascii_stl"
                        /\ pos' = 0
                        /\ tok' = 1
              /\ UNCHANGED <<out, exit, err>>
  /\ UNCHANGED <<inputVars, triangles, eofbit, i, plyVars>>

\* a loop that leaves the attribute byte count unread
RecordBytes_NoAttribute == SizeofTriangle

\* the bytes one iteration of read_binary_stl's loop reads: a Triangle, then
\* the attribute byte count
RecordBytes == SizeofTriangle + SizeofUint16

\* one iteration of read_binary_stl's loop, or its exit
ReadBinaryStl ==
  /\ pc = "read_binary_stl"
  /\ IF i < num_triangles
       THEN IF ReadFails(RecordBytes)
              THEN /\ Throw("ios_base::failure")
                   /\ UNCHANGED <<triangles, pos, i>>
              ELSE /\ triangles' = Append(triangles, TriangleAt(pos))
                   /\ pos' = pos + RecordBytes
                   /\ i' = i + 1
                   /\ UNCHANGED <<pc, exit, err>>
       ELSE /\ pc' = "print"
            /\ UNCHANGED <<exit, err, triangles, pos, i>>
  /\ UNCHANGED <<inputVars, out, tok, eofbit, num_triangles, plyVars>>

\* the tokens of a facet block that hold numbers, the keyword "facet" at k
FacetNumbers(k) ==
  {k + 2, k + 3, k + 4, k + 8, k + 9, k + 10, k + 12, k + 13, k + 14,
   k + 16, k + 17, k + 18}

FacetLen == 21

AsciiTriangle(k) ==
  [normal |-> <<Tok(k + 2).v, Tok(k + 3).v, Tok(k + 4).v>>,
   vertices |-> [n \in 1..3 |->
                   <<Tok(k + 4 + 4 * n).v, Tok(k + 5 + 4 * n).v, Tok(k + 6 + 4 * n).v>>]]

\* one iteration of read_ascii_stl's loop, or its exit
ReadAsciiStl ==
  /\ pc = "read_ascii_stl"
  /\ IF good
       THEN IF ~TokensLeft(tok, 1)
         THEN /\ Throw("ios_base::failure")
              /\ eofbit' = TRUE
              /\ UNCHANGED <<triangles, tok>>
         ELSE IF Tok(tok) = W("facet")
           THEN IF TokensLeft(tok, FacetLen) /\ AllNumbers(FacetNumbers(tok))
             THEN /\ triangles' = Append(triangles, AsciiTriangle(tok))
                  /\ tok' = tok + FacetLen
                  /\ eofbit' = EofAfter(tok + FacetLen - 1)
                  /\ UNCHANGED <<pc, exit, err>>
             ELSE /\ Throw("ios_base::failure")
                  /\ UNCHANGED <<triangles, tok, eofbit>>
           ELSE /\ tok' = tok + 1
                /\ eofbit' = EofAfter(tok)
                /\ UNCHANGED <<pc, exit, err, triangles>>
       ELSE /\ pc' = "print"
            /\ UNCHANGED <<exit, err, triangles, tok, eofbit>>
  /\ UNCHANGED <<inputVars, out, pos, stlVars, plyVars>>

-----------------------------------------------------------------------------
(* PLY input files *)

ElementLine(name, n) == <<W("element"), W(name), N(n)>>
ScalarLine(name) == <<W("property"), W("float"), W(name)>>
ListLine(name) == <<W("property"), W("list"), W("uchar"), W("int"), W(name)>>
CommentLine == <<W("comment"), W("made"), W("by")>>

Preamble(fmt) == <<<<W("ply")>>, <<W("format"), W(fmt), W("1.0")>>>>

XYZ == <<ScalarLine("x"), ScalarLine("y"), ScalarLine("z")>>

\* index lists of a face record: well-formed, wrong length, out of range
FaceChoices ==
  {<<0, 1, 2>>, <<2, 0, 1>>, <<0, 1>>, <<0, 1, 2, 0>>, <<0, 1, MaxVerts>>, <<-1, 0, 1>>}
FewFaceChoices == {<<0, 1, 2>>, <<1, 0>>}
ShortLists == {<<>>, <<5>>}
SplitLists == {<<0>>, <<1, 2>>}

\* header lines after the preamble, for n vertex and m face records
Schemas(n, m) ==
  { [lines |-> <<CommentLine, ElementLine("vertex", n)>> \o XYZ
                 \o <<ElementLine("face", m), ListLine("vertex_indices")>>,
     lists |-> FaceChoices],
    [lines |-> <<ElementLine("vertex", n)>> \o XYZ
                 \o <<ElementLine("face", m), ListLine("vertex_index")>>,
     lists |-> FewFaceChoices],
    [lines |-> <<ScalarLine("x"), ElementLine("vertex", n)>> \o XYZ
                 \o <<ElementLine("face", m), ListLine("vertex_indices")>>,
     lists |-> FewFaceChoices],
    [lines |-> <<ElementLine("vertex", n)>> \o XYZ, lists |-> {}],
    [lines |-> <<ElementLine("face", m), ListLine("vertex_indices")>>,
     lists |-> FewFaceChoices],
    [lines |-> <<ElementLine("vertex", n)>> \o XYZ \o <<ScalarLine("x")>>
                 \o <<ElementLine("face", m), ListLine("vertex_indices")>>,
     lists |-> FewFaceChoices],
    [lines |-> <<ElementLine("vertex", n), ScalarLine("x"), ScalarLine("y")>>
                 \o <<ElementLine("face", m), ListLine("vertex_indices")>>,
     lists |-> FewFaceChoices],
    [lines |-> <<ElementLine("vertex", n), ListLine("x"), ScalarLine("y"),
                 ScalarLine("z"), ElementLine("face", m), ListLine("vertex_indices")>>,
     lists |-> ShortLists],
    [lines |-> <<ElementLine("vertex", n)>> \o XYZ
                 \o <<ElementLine("face", m), ScalarLine("flag")>>,
     lists |-> {}],
    [lines |-> <<ElementLine("face", m), ListLine("vertex_indices"),
                 ElementLine("vertex", n)>> \o XYZ,
     lists |-> FewFaceChoices],
    [lines |-> <<ElementLine("vertex", n)>> \o XYZ
                 \o <<ElementLine("face", m), ListLine("vertex_indices"),
                      ListLine("vertex_indices")>>,
     lists |-> SplitLists],
    [lines |-> <<ElementLine("vertex", n)>> \o XYZ
                 \o <<ElementLine("vertex", m), ScalarLine("w")>>,
     lists |-> {}] }

\* every concatenation of one sequence from each set of ss
RECURSIVE Concats(_)
Concats(ss) ==
  IF ss = <<>> THEN {<<>>}
  ELSE {a \o b : a \in Head(ss), b \in Concats(Tail(ss))}

\* the data a property line asks for in record r (counted from 0), as the
\* set of its possible token sequences; j is the line's place in the header
FieldData(line, j, r, lists) ==
  IF line[1] = W("property")
    THEN IF line[2] = W("list")
           THEN {<<N(Len(c))>> \o [k \in 1..Len(c) |-> N(c[k])] : c \in lists}
           ELSE {<<N((r + j) % 10)>>}
    ELSE {<<>>}

\* the header's lines from j on that declare properties of one element
RECURSIVE PropsFrom(_, _)
PropsFrom(lines, j) ==
  IF j > Len(lines) \/ lines[j][1] # W("property") THEN <<>>
  ELSE <<j>> \o PropsFrom(lines, j + 1)

\* the possible data of the element declared by line j
ElementData(lines, j, lists) ==
  IF lines[j][1] # W("element") THEN {<<>>}
  ELSE Concats(Flatten([r \in 1..lines[j][3].v |->
                          [q \in 1..Len(PropsFrom(lines, j + 1)) |->
                             FieldData(lines[PropsFrom(lines, j + 1)[q]],
                                       q, r - 1, lists)]]))

DataOf(sch) ==
  Concats([j \in 1..Len(sch.lines) |-> ElementData(sch.lines, j, sch.lists)])

HeaderText(fmt, lines) ==
  Flatten([k \in 1..Len(Preamble(fmt) \o lines) |-> Line((Preamble(fmt) \o lines)[k])])
  \o Line(<<W("end_header")>>)

PlyText(fmt, sch, data, last) ==
  EndWith(HeaderText(fmt, sch.lines) \o Sep(data, "sp"), last)

GoodPlyTexts ==
  { PlyText("ascii", sch, data, last) :
      <<sch, data>> \in UNION { {<<s, d>> : d \in DataOf(s)} :
                                  s \in UNION {Schemas(n, m) : n \in 0..MaxVerts, m \in 0..MaxFaces} },
      last \in {"none", "nl"} }

\* a text cut short, one with a word among its numbers, one in a binary format
Damaged(text) ==
  { SubSeq(text, 1, Len(text) - 1),
    [text EXCEPT ![Len(text)] = Item(W("oops"), "nl")],
    [text EXCEPT ![Len(text) - 3] = Item(N(-1), "sp")],
    SubSeq(text, 1, 5),
    SubSeq(text, 1, 3) }

TriangleSchema ==
  [lines |-> <<ElementLine("vertex", 3)>> \o XYZ
               \o <<ElementLine("face", 1), ListLine("vertex_indices")>>,
   lists |-> {<<0, 1, 2>>}]

OddPlyTexts ==
  UNION { Damaged(PlyText("ascii", TriangleSchema, d, "nl")) : d \in DataOf(TriangleSchema) }
  \cup { PlyText("binary_little_endian", TriangleSchema, d, "nl") : d \in DataOf(TriangleSchema) }
  \cup { EndWith(Flatten(<<Line(<<W("ply")>>), Line(<<W("format"), W("ascii"), W("1.0")>>),
                           Line(tail)>>), last) :
           tail \in {<<W("comment")>>, <<W("comment"), W("x")>>, <<W("element"), W("vertex")>>,
                     <<W("property"), W("end_header"), W("x")>>,
                     <<W("property"), W("list"), W("x")>>, <<W("obj_info")>>},
           last \in {"none", "sp", "nl"} }

PlyFiles == { File(TextBytes(t), 0, t) : t \in GoodPlyTexts \cup OddPlyTexts }

-----------------------------------------------------------------------------
(* PLY schema parser: Parsed_PLY read_ply(std::ifstream &) *)

Scalar == "Scalar"
List == "List"

PLY_Property_Definition(type, name) == [type |-> type, name |-> name]

PLY_Element_Definition(name, count) ==
  [name |-> name, count |-> count, property_definitions |-> <<>>]

\* ifs >> token, four times; the third token is the format
ReadPlyPreamble ==
  /\ pc = "read_ply"
  /\ IF TokensLeft(tok, 4)
       THEN /\ format' = Tok(tok + 2)
            /\ token' = Tok(tok + 3)
            /\ tok' = tok + 4
            /\ eofbit' = EofAfter(tok + 3)
            /\ pc' = "read_ply_header"
            /\ UNCHANGED <<exit, err>>
       ELSE /\ Throw("ios_base::failure")
            /\ UNCHANGED <<format, token, tok, eofbit>>
  /\ UNCHANGED <<inputVars, out, triangles, pos, stlVars, element_definitions,
                 elements_map, edIdx, recIdx, vertices, faceIdx>>

\* the tokens from k on that end with a newline
NewlinesFrom(k) == {j \in k..Len(file.text) : file.text[j].ws = "nl"}

Min(S) == CHOOSE x \in S : \A y \in S : x <= y

\* the number of tokens a property declaration holds after "property"
PropertyLen(k) == IF Tok(k + 1) = W("list") THEN 4 ELSE 2

\* a property appended to the first element instead of the last
push_back_property_first(eds, pd) ==
  [eds EXCEPT ![1].property_definitions = Append(@, pd)]

push_back_property(eds, pd) ==
  [eds EXCEPT ![Len(eds)].property_definitions = Append(@, pd)]

\* one iteration of the header loop of read_ply, the keyword at token tok
HeaderComment ==
  IF EofAfter(tok)
    THEN \* skip_line on a stream at its end: ignore() sets failbit
         /\ Throw("ios_base::failure")
         /\ eofbit' = TRUE
         /\ UNCHANGED tok
    ELSE \* ignore() stops after the next newline or at the end of the file
         /\ tok' = IF NewlinesFrom(tok) = {} THEN Len(file.text) + 1
                   ELSE Min(NewlinesFrom(tok)) + 1
         /\ eofbit' = (NewlinesFrom(tok) = {})
         /\ UNCHANGED <<pc, exit, err>>

HeaderElement ==
  IF TokensLeft(tok, 3) /\ Tok(tok + 2).num
    THEN /\ element_definitions' =
              Append(element_definitions,
                     PLY_Element_Definition(Tok(tok + 1), Tok(tok + 2).v))
         /\ tok' = tok + 3
         /\ eofbit' = EofAfter(tok + 2)
         /\ UNCHANGED <<pc, exit, err>>
    ELSE /\ Throw("ios_base::failure")
         /\ UNCHANGED <<element_definitions, tok, eofbit>>

HeaderProperty ==
  IF TokensLeft(tok, 2) /\ TokensLeft(tok, 1 + PropertyLen(tok))
    THEN LET n == PropertyLen(tok)
             pd == PLY_Property_Definition(IF n = 4 THEN List ELSE Scalar, Tok(tok + n))
         IN /\ token' = Tok(tok + n - 1)
            /\ tok' = tok + n + 1
            /\ eofbit' = EofAfter(tok + n)
            /\ IF element_definitions = <<>>
                 THEN /\ Throw("PLY_Expected_Element_Definition_Error")
                      /\ UNCHANGED element_definitions
                 ELSE /\ element_definitions' = push_back_property(element_definitions, pd)
                      /\ UNCHANGED <<pc, exit, err>>
    ELSE /\ Throw("ios_base::failure")
         /\ UNCHANGED <<token, element_definitions, tok, eofbit>>

ReadPlyHeader ==
  /\ pc = "read_ply_header"
  /\ IF good /\ token # W("end_header")
       THEN IF ~TokensLeft(tok, 1)
         THEN /\ Throw("ios_base::failure")
              /\ eofbit' = TRUE
              /\ UNCHANGED <<token, element_definitions, tok, edIdx>>
         ELSE /\ CASE Tok(tok) = W("comment") ->
                        /\ token' = Tok(tok)
                        /\ HeaderComment
                        /\ UNCHANGED element_definitions
                   [] Tok(tok) = W("element") ->
                        /\ token' = Tok(tok)
                        /\ HeaderElement
                   [] Tok(tok) = W("property") ->
                        HeaderProperty
                   [] OTHER ->
                        /\ token' = Tok(tok)
                        /\ tok' = tok + 1
                        /\ eofbit' = EofAfter(tok)
                        /\ UNCHANGED <<pc, exit, err, element_definitions>>
              /\ UNCHANGED edIdx
       ELSE /\ pc' = "read_ply_data"
            /\ edIdx' = 1
            /\ UNCHANGED <<exit, err, token, element_definitions, tok, eofbit>>
  /\ UNCHANGED <<inputVars, out, triangles, pos, stlVars, format, elements_map,
                 recIdx, vertices, faceIdx>>

-----------------------------------------------------------------------------
(* PLY data parser *)

\* String_Map<T>: a function from the keys present to their values
EmptyMap == [k \in {} |-> <<>>]

\* a lookup that starts from an empty value whatever the map holds
Subscript_Fresh(map, key) == <<>>

\* map[key], which inserts an empty value under a key that is absent
Subscript(map, key) == IF key \in DOMAIN map THEN map[key] ELSE <<>>

Store(map, key, value) ==
  [k \in DOMAIN map \cup {key} |-> IF k = key THEN value ELSE map[k]]

\* the numbers of the tokens k .. k + n - 1
Values(k, n) == [j \in 1..n |-> Tok(k + j - 1).v]

\* how many of the tokens k .. k + n - 1 are there and are numbers, counted
\* up to the first that is not
RECURSIVE GoodRun(_, _)
GoodRun(k, n) ==
  IF n > 0 /\ TokensLeft(k, 1) /\ Tok(k).num THEN 1 + GoodRun(k + 1, n - 1) ELSE 0

\* parse_ply_property_definition_ascii with the stream at token k.  A value
\* is emplaced before it is extracted, and a failed extraction stores 0.  A
\* list length below zero wraps to a size_t no file is long enough for.
parse_ply_property_definition_ascii(pd, k, property_map) ==
  LET values == Subscript(property_map, pd.name)
      Result(ok, newTok, newValues) ==
        [ok |-> ok, tok |-> newTok,
         property_map |-> Store(property_map, pd.name, newValues)]
  IN IF pd.type = List
       THEN IF TokensLeft(k, 1) /\ Tok(k).num
              THEN LET num_values == Tok(k).v
                       wanted == IF num_values < 0 THEN Len(file.text) ELSE num_values
                       got == GoodRun(k + 1, wanted)
                   IN IF num_values >= 0 /\ got = num_values
                        THEN Result(TRUE, k + 1 + got, values \o Values(k + 1, got))
                        ELSE Result(FALSE, k + 1 + got,
                                    Append(values \o Values(k + 1, got), 0))
              ELSE Result(FALSE, k, values)
       ELSE IF TokensLeft(k, 1) /\ Tok(k).num
              THEN Result(TRUE, k + 1, Append(values, Tok(k).v))
              ELSE Result(FALSE, k, Append(values, 0))

\* the loop over ed.property_definitions in parse_ply_element_definition_ascii
RECURSIVE ParseProperties(_, _, _)
ParseProperties(pds, k, property_map) ==
  IF pds = <<>> THEN [ok |-> TRUE, tok |-> k, property_map |-> property_map]
  ELSE LET r == parse_ply_property_definition_ascii(Head(pds), k, property_map)
       IN IF r.ok THEN ParseProperties(Tail(pds), r.tok, r.property_map) ELSE r

\* read_ply after the header: the next element definition, or the return
ReadPlyData ==
  /\ pc = "read_ply_data"
  /\ IF format = W("ascii") /\ edIdx <= Len(element_definitions)
       THEN /\ elements_map' =
                 Store(elements_map, element_definitions[edIdx].name,
                       Subscript(elements_map, element_definitions[edIdx].name))
            /\ recIdx' = 0
            /\ pc' = "parse_element"
       ELSE /\ pc' = "project_vertices"
            /\ UNCHANGED <<elements_map, recIdx>>
  /\ UNCHANGED <<inputVars, exit, err, out, triangles, pos, tok, eofbit, stlVars,
                 token, format, element_definitions, edIdx, vertices, faceIdx>>

\* one iteration of the record loop of parse_ply_element_definition_ascii,
\* or its exit; a count below zero wraps to a size_t never reached
ParsePlyElement ==
  /\ pc = "parse_element"
  /\ LET ed == element_definitions[edIdx]
         r == ParseProperties(ed.property_definitions, tok, EmptyMap)
     IN IF recIdx < ed.count \/ ed.count < 0
          THEN /\ elements_map' =
                    [elements_map EXCEPT ![ed.name] = Append(@, r.property_map)]
               /\ tok' = r.tok
               /\ eofbit' = IF r.tok > tok THEN EofAfter(r.tok - 1) ELSE eofbit
               /\ IF r.ok /\ (ed.property_definitions # <<>> \/ ed.count >= 0)
                    THEN /\ recIdx' = recIdx + 1
                         /\ UNCHANGED <<pc, exit, err, edIdx>>
                    ELSE /\ Throw(IF r.ok THEN "bad_alloc" ELSE "ios_base::failure")
                         /\ UNCHANGED <<recIdx, edIdx>>
          ELSE /\ edIdx' = edIdx + 1
               /\ pc' = "read_ply_data"
               /\ UNCHANGED <<exit, err, elements_map, tok, eofbit, recIdx>>
  /\ UNCHANGED <<inputVars, out, triangles, pos, stlVars, token, format,
                 element_definitions, vertices, faceIdx>>

-----------------------------------------------------------------------------
(* PLY-to-mesh projector: void read_ply(std::ifstream &, std::vector<Triangle> &) *)

Sub(a, b) == <<a[1] - b[1], a[2] - b[2], a[3] - b[3]>>

cross(a, b) ==
  <<a[2] * b[3] - a[3] * b[2], a[3] * b[1] - a[1] * b[3], a[1] * b[2] - a[2] * b[1]>>

\* normalize(): the unit vector along v, NaNs for a vector of magnitude 0
normalize(v) == IF v = <<0, 0, 0>> THEN <<"nan", v>> ELSE <<"unit", v>>

\* what a read outside a vector's storage may yield when it does not fault
GarbageFloats == {0, 7}
GarbageVecs == {<<g, g, g>> : g \in GarbageFloats}

XYZNames == <<W("x"), W("y"), W("z")>>

\* one iteration of the loop over the "vertex" records, or its exit.  at()
\* throws std::out_of_range on an absent key; values[0] of an empty vector is
\* undefined behaviour: the process faults or goes on with whatever it read.
ProjectVertex ==
  /\ pc = "project_vertices"
  /\ IF W("vertex") \notin DOMAIN elements_map
       THEN /\ Throw("std::out_of_range")
            /\ UNCHANGED vertices
       ELSE IF Len(vertices) < Len(elements_map[W("vertex")])
         THEN LET e == elements_map[W("vertex")][Len(vertices) + 1]
                  absent == \E c \in 1..3 : XYZNames[c] \notin DOMAIN e
                  empty == {c \in 1..3 : XYZNames[c] \in DOMAIN e /\ e[XYZNames[c]] = <<>>}
              IN IF empty = {}
                   THEN IF absent
                          THEN /\ Throw("std::out_of_range")
                               /\ UNCHANGED vertices
                          ELSE /\ vertices' = Append(vertices,
                                                     [c \in 1..3 |-> e[XYZNames[c]][1]])
                               /\ UNCHANGED <<pc, exit, err>>
                   ELSE \/ /\ Crash
                           /\ UNCHANGED vertices
                        \/ /\ absent
                           /\ Throw("std::out_of_range")
                           /\ UNCHANGED vertices
                        \/ /\ ~absent
                           /\ \E g \in GarbageFloats :
                                vertices' = Append(vertices,
                                                   [c \in 1..3 |-> IF c \in empty THEN g
                                                                   ELSE e[XYZNames[c]][1]])
                           /\ UNCHANGED <<pc, exit, err>>
         ELSE /\ pc' = "project_faces"
              /\ UNCHANGED <<exit, err, vertices>>
  /\ UNCHANGED <<inputVars, out, triangles, pos, tok, eofbit, stlVars, token,
                 format, element_definitions, elements_map, edIdx, recIdx, faceIdx>>

\* the property a face's indices are taken from: find("vertex_indices"),
\* then find("vertex_index")
IndexKeys(e) ==
  IF W("vertex_indices") \in DOMAIN e THEN {W("vertex_indices")}
  ELSE IF W("vertex_index") \in DOMAIN e THEN {W("vertex_index")}
  ELSE {}

\* vertices[static_cast<size_t>(index)] reads inside the vector
InRange(index) == 0 <= index /\ index < Len(vertices)

\* a check that lets longer index lists through
WrongSize_Less(vertex_indices) == Len(vertex_indices) < 3

\* vertex_indices.size() != 3
WrongSize(vertex_indices) == Len(vertex_indices) # 3

\* a triangle with its winding reversed
MakeTriangle_Reversed(v0, v1, v2) ==
  [normal |-> normalize(cross(Sub(v1, v0), Sub(v2, v0))), vertices |-> <<v0, v2, v1>>]

MakeTriangle(v0, v1, v2) ==
  [normal |-> normalize(cross(Sub(v1, v0), Sub(v2, v0))), vertices |-> <<v0, v1, v2>>]

\* one iteration of the loop over the "face" records, or its exit.  The
\* subscript is unchecked: an index outside the vector is undefined
\* behaviour, a fault or a triangle built from whatever was read.
ProjectFace ==
  /\ pc = "project_faces"
  /\ IF W("face") \notin DOMAIN elements_map
       THEN /\ Throw("std::out_of_range")
            /\ UNCHANGED <<triangles, faceIdx>>
       ELSE IF faceIdx < Len(elements_map[W("face")])
         THEN LET e == elements_map[W("face")][faceIdx + 1]
              IN IF IndexKeys(e) = {}
                   THEN /\ Throw("std::out_of_range")
                        /\ UNCHANGED <<triangles, faceIdx>>
                   ELSE LET vertex_indices == e[CHOOSE k \in IndexKeys(e) : TRUE]
                        IN IF WrongSize(vertex_indices)
                             THEN /\ Throw("std::domain_error")
                                  /\ UNCHANGED <<triangles, faceIdx>>
                             ELSE IF \A c \in 1..3 : InRange(vertex_indices[c])
                               THEN /\ triangles' =
                                         Append(triangles,
                                                MakeTriangle(vertices[vertex_indices[1] + 1],
                                                             vertices[vertex_indices[2] + 1],
                                                             vertices[vertex_indices[3] + 1]))
                                    /\ faceIdx' = faceIdx + 1
                                    /\ UNCHANGED <<pc, exit, err>>
                               ELSE \/ /\ Crash
                                       /\ UNCHANGED <<triangles, faceIdx>>
                                    \/ /\ \E g \in GarbageVecs :
                                            LET v == [c \in 1..3 |->
                                                        IF InRange(vertex_indices[c])
                                                          THEN vertices[vertex_indices[c] + 1]
                                                          ELSE g]
                                            IN triangles' = Append(triangles,
                                                                   MakeTriangle(v[1], v[2], v[3]))
                                       /\ faceIdx' = faceIdx + 1
                                       /\ UNCHANGED <<pc, exit, err>>
         ELSE /\ pc' = "print"
              /\ UNCHANGED <<exit, err, triangles, faceIdx>>
  /\ UNCHANGED <<inputVars, out, pos, tok, eofbit, stlVars, token, format,
                 element_definitions, elements_map, edIdx, recIdx, vertices>>

-----------------------------------------------------------------------------
(* The runs *)

Paths ==
  { <<"m", ".", "s", "t", "l">>, <<"m", ".", "S", "T", "L">>, <<"m", ".", "p", "l", "y">>,
    <<"m", ".", "P", "l", "y">>, <<"m", ".", "o", "b", "j">>, <<"s", "t", "l">> }

IsStlPath(p) == ends_with(str_tolower(p), DotStl)
IsPlyPath(p) == ends_with(str_tolower(p), DotPly)

\* the files each path is tried on
FilesOf(p) ==
  IF IsStlPath(p) THEN StlFiles \cup {EmptyFile}
  ELSE IF IsPlyPath(p) THEN PlyFiles \cup {EmptyFile}
  ELSE {EmptyFile}

Init ==
  /\ argc \in 1..3
  /\ openOk \in BOOLEAN
  /\ path \in Paths
  /\ file \in FilesOf(path)
  /\ (argc # 2 \/ ~openOk) => file = EmptyFile
  /\ pc = "start"
  /\ exit = -1
  /\ err = "none"
  /\ out = <<>>
  /\ triangles = <<>>
  /\ pos = 0
  /\ tok = 1
  /\ eofbit = FALSE
  /\ num_triangles = 0
  /\ i = 0
  /\ token = W("")
  /\ format = W("")
  /\ element_definitions = <<>>
  /\ elements_map = EmptyMap
  /\ edIdx = 0
  /\ recIdx = 0
  /\ vertices = <<>>
  /\ faceIdx = 0

Next ==
  \/ MainArgs
  \/ MainOpen
  \/ MainDispatch
  \/ ReadStl
  \/ ReadBinaryStl
  \/ ReadAsciiStl
  \/ ReadPlyPreamble
  \/ ReadPlyHeader
  \/ ReadPlyData
  \/ ParsePlyElement
  \/ ProjectVertex
  \/ ProjectFace
  \/ MainPrint

Spec == Init /\ [][Next]_vars

TypeOK ==
  /\ pc \in {"start", "open", "dispatch", "read_stl", "read_binary_stl",
             "read_ascii_stl", "read_ply", "read_ply_header", "read_ply_data",
             "parse_element", "project_vertices", "project_faces", "print", "done"}
  /\ exit \in {-1, 0, 1, 134, 139}

-----------------------------------------------------------------------------
(* Properties *)

Started == argc = 2 /\ openOk
Done == pc = "done"
CountPrinted == \E k \in 1..Len(out) : out[k][1] = "Number of triangles"
StlRun == Started /\ IsStlPath(path)
PlyRun == Started /\ IsPlyPath(path)

\* C1: for every non-empty STL stream, read_stl takes the binary path if and
\* only if the length equals 80 + 4 + N * (record size + 2), N the word at
\* offset 80; in every other case, too short inputs included, it rewinds to
\* offset 0 and decodes as ASCII without an error from the size check.
C1_SizeCheckChoosesDecoder ==
  [][(pc = "read_stl" /\ file.size > 0) =>
       IF /\ file.size >= BINARY_STL_HEADER_SIZE + SizeofUint32
          /\ file.size = BINARY_STL_HEADER_SIZE + SizeofUint32
                           + file.count * (SizeofTriangle + SizeofUint16)
         THEN pc' = "read_binary_stl"
         ELSE pc' = "read_ascii_stl" /\ tok' = 1 /\ err' = "none"]_vars

\* a binary STL file: its length is the one its count field announces
ValidBinaryStl ==
  /\ file.size >= BINARY_STL_HEADER_SIZE + SizeofUint32
  /\ file.size = BINARY_STL_HEADER_SIZE + SizeofUint32
                   + file.count * (SizeofTriangle + SizeofUint16)

\* C2 as stated: for all valid binary STL inputs read_stl appends N
\* triangles, N the declared count, in on-disk order, and consumes exactly
\* 80 + 4 + N * (50 + 2) bytes.
C2_ConsumesFiftyTwoPerRecord ==
  (StlRun /\ ValidBinaryStl /\ pc \in {"print", "done"}) =>
    /\ Len(triangles) = file.count
    /\ \A k \in 1..Len(triangles) :
         triangles[k].normal[1] = FloatAt(80 + 4 + (k - 1) * (48 + 2))
    /\ pos = 80 + 4 + file.count * (50 + 2)

\* C2 as amended: for all valid binary STL inputs read_stl appends N
\* triangles in on-disk order and consumes exactly 80 + 4 + N * (48 + 2)
\* bytes, which is the whole file.
C2_ConsumesFiftyPerRecord ==
  (StlRun /\ ValidBinaryStl /\ pc \in {"print", "done"}) =>
    /\ Len(triangles) = file.count
    /\ \A k \in 1..Len(triangles) :
         /\ triangles[k].normal[1] = FloatAt(80 + 4 + (k - 1) * (48 + 2))
         /\ triangles[k].vertices[3][3] = FloatAt(80 + 4 + (k - 1) * (48 + 2) + 44)
    /\ pos = 80 + 4 + file.count * (48 + 2)
    /\ pos = file.size
    /\ err = "none"

C2_Witness ==
  /\ StlRun /\ ValidBinaryStl /\ Done /\ exit = 0
  /\ file.count = MaxTris
  /\ Len(triangles) = MaxTris

\* the facet keywords of a text
NumFacets(text) == Cardinality({k \in 1..Len(text) : text[k].t = W("facet")})

\* a well-formed ASCII STL text: an optional solid line, complete facet
\* blocks, an optional endsolid line, any whitespace between and after
ValidAsciiStl ==
  \E k \in 0..MaxFacets :
    \E pre \in {<<>>, <<W("solid"), W("m")>>}, post \in {<<>>, <<W("endsolid"), W("m")>>} :
      /\ file.text # <<>>
      /\ [j \in 1..Len(file.text) |-> file.text[j].t] = pre \o Facets(k) \o post

\* C3: for all valid ASCII STL inputs with k facet blocks read_ascii_stl
\* finishes without raising and appends exactly k triangles, whatever the
\* whitespace between tokens, the tokens outside the blocks and the newline
\* after the last token.
C3_AsciiDecodesEveryFacet ==
  (StlRun /\ ValidAsciiStl /\ ~ValidBinaryStl /\ Done
     /\ file.size >= BINARY_STL_HEADER_SIZE + SizeofUint32) =>
    /\ err = "none"
    /\ exit = 0
    /\ Len(triangles) = NumFacets(file.text)

\* C4: a zero-byte input under a .stl or a .ply path yields zero triangles
\* and no error: nothing is raised and the exit status is zero.
C4_EmptyInputIsNoError ==
  (Started /\ (IsStlPath(path) \/ IsPlyPath(path)) /\ file.size = 0 /\ Done) =>
    /\ err = "none"
    /\ exit = 0
    /\ triangles = <<>>

\* the face record the projector is about to read holds three indices, one
\* of them outside the vertex sequence
FaceOutOfRange ==
  /\ pc = "project_faces"
  /\ W("face") \in DOMAIN elements_map
  /\ faceIdx < Len(elements_map[W("face")])
  /\ LET e == elements_map[W("face")][faceIdx + 1]
     IN /\ IndexKeys(e) # {}
        /\ \A k \in IndexKeys(e) :
             /\ Len(e[k]) = 3
             /\ \E c \in 1..3 : e[k][c] < 0 \/ e[k][c] >= Len(vertices)

\* C5: a face index out of range of the vertex sequence is a fatal bounds
\* error: the run stops with an error at that face, no triangle is appended
\* for it and no triangle count is reported.
C5_OutOfRangeIndexIsFatal ==
  [][FaceOutOfRange =>
       /\ pc' = "done"
       /\ exit' \notin {-1, 0}
       /\ triangles' = triangles
       /\ out' = out]_vars

\* a face record already projected held an index outside the vertex sequence
BoundsErrorSeen ==
  /\ W("face") \in DOMAIN elements_map
  /\ \E f \in 1..faceIdx :
       LET e == elements_map[W("face")][f]
       IN \E k \in IndexKeys(e) :
            \E c \in 1..Len(e[k]) : e[k][c] < 0 \/ e[k][c] >= Len(vertices)

FatalError == err # "none" \/ BoundsErrorSeen

\* C9: every fatal error kind (open failure, unsupported extension, schema,
\* lookup and bounds error, malformed numeric token) ends the run with a
\* non-zero exit status and without the count line; the count line is
\* printed, and the status is zero, only when the decode completed without
\* error.
C9_ErrorsNeverReportACount ==
  Done =>
    /\ FatalError => (exit # 0 /\ ~CountPrinted)
    /\ CountPrinted => (exit = 0 /\ ~FatalError)

\* the header "element vertex n / x y z / element face m / vertex_indices"
StandardLines(n, m) ==
  <<CommentLine, ElementLine("vertex", n)>> \o XYZ
    \o <<ElementLine("face", m), ListLine("vertex_indices")>>

TokensOf(text) == [j \in 1..Len(text) |-> text[j].t]

StandardHeaderLen == Len(HeaderText("ascii", StandardLines(0, 0)))

\* the file is an ASCII PLY of that schema whose data matches it: n vertex
\* records of three numbers, m face records of three indices in range
StandardPly(n, m) ==
  LET toks == TokensOf(file.text)
      h == StandardHeaderLen
  IN /\ Len(toks) = h + 3 * n + 4 * m
     /\ SubSeq(toks, 1, h) = TokensOf(HeaderText("ascii", StandardLines(n, m)))
     /\ \A j \in (h + 1)..Len(toks) : toks[j].num
     /\ \A f \in 0..(m - 1) :
          /\ toks[h + 3 * n + 4 * f + 1].v = 3
          /\ \A c \in 1..3 : toks[h + 3 * n + 4 * f + 1 + c].v \in 0..(n - 1)

\* vertex record r and the c-th index of face record f, both counted from
\* 0, as the file's text holds them
VertexRecord(r) ==
  [c \in 1..3 |-> file.text[StandardHeaderLen + 3 * r + c].t.v]
FaceIndex(n, f, c) == file.text[StandardHeaderLen + 3 * n + 4 * f + 1 + c].t.v

\* C6: for an ASCII PLY with element vertex (n records of x, y, z) followed
\* by element face (m records of vertex_indices), data matching and every
\* face listing 3 indices in range, read_ply appends exactly m triangles in
\* face order, the j-th made of the vertex records the j-th face lists, in
\* the order listed.
C6_FacesSelectVertexRecords ==
  (PlyRun /\ Done) =>
    \A n \in 0..MaxVerts, m \in 0..MaxFaces :
      StandardPly(n, m) =>
        /\ err = "none"
        /\ exit = 0
        /\ out = <<<<"Number of triangles", m>>>>
        /\ Len(triangles) = m
        /\ \A f \in 0..(m - 1) :
             triangles[f + 1].vertices =
               [c \in 1..3 |-> VertexRecord(FaceIndex(n, f, c))]

C6_Witness ==
  /\ PlyRun /\ Done /\ exit = 0
  /\ StandardPly(3, MaxFaces)
  /\ Len(triangles) = MaxFaces
  /\ triangles[1].vertices = <<VertexRecord(2), VertexRecord(0), VertexRecord(1)>>

\* the header loop is about to read a whole property declaration
AtProperty ==
  /\ pc = "read_ply_header"
  /\ good /\ token # W("end_header")
  /\ TokensLeft(tok, 2)
  /\ file.text[tok].t = W("property")
  /\ TokensLeft(tok, IF file.text[tok + 1].t = W("list") THEN 5 ELSE 3)

\* the declaration read there
DeclaredProperty ==
  IF file.text[tok + 1].t = W("list")
    THEN [type |-> "List", name |-> file.text[tok + 4].t]
    ELSE [type |-> "Scalar", name |-> file.text[tok + 2].t]

SchemaError == err = "PLY_Expected_Element_Definition_Error"

\* C7: a property declared before any element raises
\* PLY_Expected_Element_Definition_Error before any token of the data
\* section is read and before any record is stored; a property declared
\* after an element never raises it and is appended to the property list
\* of the most recently declared element, in declaration order.
C7_PropertyNeedsAnElement ==
  /\ [](SchemaError =>
          /\ pc = "done" /\ exit # 0
          /\ element_definitions = <<>>
          /\ edIdx = 0
          /\ elements_map = EmptyMap)
  /\ [][(AtProperty /\ element_definitions = <<>>) =>
          (err' = "PLY_Expected_Element_Definition_Error")]_vars
  /\ [][(AtProperty /\ element_definitions # <<>>) =>
          /\ err' = "none"
          /\ Len(element_definitions') = Len(element_definitions)
          /\ \A k \in 1..(Len(element_definitions) - 1) :
               element_definitions'[k] = element_definitions[k]
          /\ LET last == element_definitions[Len(element_definitions)]
                 last2 == element_definitions'[Len(element_definitions)]
             IN /\ last2.name = last.name
                /\ last2.count = last.count
                /\ last2.property_definitions =
                     Append(last.property_definitions, DeclaredProperty)]_vars

C7_Witness ==
  /\ SchemaError
  /\ \E k \in 1..Len(file.text) : file.text[k].t = W("end_header")
  /\ tok > 4

\* the face record the projector is about to read holds an index list whose
\* length is not 3
FaceOfWrongSize ==
  /\ pc = "project_faces"
  /\ W("face") \in DOMAIN elements_map
  /\ faceIdx < Len(elements_map[W("face")])
  /\ LET e == elements_map[W("face")][faceIdx + 1]
     IN IF W("vertex_indices") \in DOMAIN e THEN Len(e[W("vertex_indices")]) # 3
        ELSE W("vertex_index") \in DOMAIN e /\ Len(e[W("vertex_index")]) # 3

\* C8: in the projector a face whose index list has a length other than 3
\* raises std::domain_error, a store without a "face" element raises
\* std::out_of_range and so does a store without a "vertex" element; no
\* triangle is appended for the offending face or after the error.
C8_ProjectorErrors ==
  /\ [][FaceOfWrongSize =>
          /\ err' = "std::domain_error"
          /\ pc' = "done" /\ exit' \notin {-1, 0}
          /\ triangles' = triangles]_vars
  /\ [][(pc = "project_faces" /\ W("face") \notin DOMAIN elements_map) =>
          /\ err' = "std::out_of_range"
          /\ pc' = "done" /\ exit' \notin {-1, 0}
          /\ triangles' = triangles /\ triangles = <<>>]_vars
  /\ [][(pc = "project_vertices" /\ W("vertex") \notin DOMAIN elements_map) =>
          /\ err' = "std::out_of_range"
          /\ pc' = "done" /\ exit' \notin {-1, 0}
          /\ triangles' = triangles /\ triangles = <<>>]_vars
  /\ [][Done => triangles' = triangles]_vars

C8_Witness ==
  /\ Done
  /\ err = "std::domain_error"
  /\ Len(triangles) = 1
  /\ faceIdx = 1
  /\ W("face") \in DOMAIN elements_map
  /\ Len(elements_map[W("face")]) = 2
  /\ W("vertex_indices") \in DOMAIN elements_map[W("face")][2]
  /\ Len(elements_map[W("face")][2][W("vertex_indices")]) = 4

\* the records the definitions of an element name ask for
RECURSIVE SumCounts(_, _)
SumCounts(eds, name) ==
  IF eds = <<>> THEN 0
  ELSE (IF Head(eds).name = name THEN Head(eds).count ELSE 0) + SumCounts(Tail(eds), name)

RECURSIVE SumLens(_, _)
SumLens(rec, names) ==
  IF names = {} THEN 0
  ELSE LET p == CHOOSE x \in names : TRUE
       IN Len(rec[p]) + SumLens(rec, names \ {p})

\* the data parser has read every element definition
DataParsed ==
  /\ PlyRun
  /\ format = W("ascii")
  /\ pc \in {"project_vertices", "project_faces", "print"}

\* the places of the definition's property list that declare the name p
Declarations(pds, p) == {q \in 1..Len(pds) : pds[q].name = p}

\* the record loop reads one whole record in this step
RecordRead == pc = "parse_element" /\ pc' = "parse_element"

\* C10: for each element definition in order exactly count records are
\* appended under the element's name; each record reads its properties in
\* declared order, a Scalar one numeric token, a List one length token k and
\* then k numeric tokens; a property name declared twice in one element
\* appends to one value list, whose length is the sum of the values read for
\* both declarations.
C10_RecordsFollowTheSchema ==
  /\ [](DataParsed =>
          /\ DOMAIN elements_map =
               {element_definitions[k].name : k \in 1..Len(element_definitions)}
          /\ \A name \in DOMAIN elements_map :
               Len(elements_map[name]) = SumCounts(element_definitions, name))
  /\ [][(pc = "parse_element" /\ pc' = "read_ply_data") =>
          /\ recIdx = element_definitions[edIdx].count
          /\ edIdx' = edIdx + 1
          /\ elements_map' = elements_map]_vars
  /\ [][RecordRead =>
          LET ed == element_definitions[edIdx]
              pds == ed.property_definitions
              old == elements_map[ed.name]
              new == elements_map'[ed.name]
              rec == new[Len(new)]
              lists == {q \in 1..Len(pds) : pds[q].type = "List"}
          IN /\ recIdx < ed.count
             /\ recIdx' = recIdx + 1
             /\ new = Append(old, rec)
             /\ \A name \in DOMAIN elements_map \ {ed.name} :
                  elements_map'[name] = elements_map[name]
             /\ DOMAIN rec = {pds[q].name : q \in 1..Len(pds)}
             /\ tok' - tok = SumLens(rec, DOMAIN rec) + Cardinality(lists)
             /\ \A q \in 1..(tok' - tok) : file.text[tok + q - 1].t.num
             /\ lists = {} =>
                  \A p \in DOMAIN rec :
                    /\ Len(rec[p]) = Cardinality(Declarations(pds, p))
                    /\ \A q \in Declarations(pds, p) :
                         rec[p][Cardinality({d \in Declarations(pds, p) : d <= q})]
                           = file.text[tok + q - 1].t.v
             /\ (Len(pds) = 1 /\ lists = {1}) =>
                  LET k == file.text[tok].t.v
                  IN rec[pds[1].name] = [j \in 1..k |-> file.text[tok + j].t.v]
             /\ (Len(pds) = 2 /\ lists = {1, 2} /\ pds[1].name = pds[2].name) =>
                  LET k1 == file.text[tok].t.v
                      k2 == file.text[tok + k1 + 1].t.v
                  IN rec[pds[1].name] =
                       [j \in 1..(k1 + k2) |->
                          IF j <= k1 THEN file.text[tok + j].t.v
                          ELSE file.text[tok + j + 1].t.v]]_vars

\* a record whose twice-declared list property holds the values of both
\* reads, and one whose twice-declared scalar holds two values
C10_Witness ==
  /\ DataParsed
  /\ W("face") \in DOMAIN elements_map
  /\ \E f \in 1..Len(elements_map[W("face")]) :
       /\ W("vertex_indices") \in DOMAIN elements_map[W("face")][f]
       /\ elements_map[W("face")][f][W("vertex_indices")] = <<0, 1, 2>>
  /\ Cardinality({k \in 1..Len(file.text) : file.text[k].t = W("vertex_indices")}) = 2

====
